---- MODULE Spec2Model ----
(***************************************************************************)
(* Model of src/app.py: the animated escape-time (Julia set) renderer of   *)
(* lines 135-173 and the Streamlit script run that drives it.              *)
(*                                                                         *)
(* Numbers.  numpy computes in binary floating point; the model computes   *)
(* in exact rationals (integers over a common denominator), on inputs for *)
(* which the quantities compared with the escape bound are far from it.    *)
(* The grid and the sliders take a few small values instead of 960 x 640   *)
(* pixels and a continuum, and the frame angle is sampled to the nearest   *)
(* quarter turn, so that c stays on the integer lattice.                   *)
(***************************************************************************)
EXTENDS Integers, Sequences, FiniteSets, TLC

VARIABLES
    iterations,       \* line 135: the script's variable, read from the slider
    separation,       \* line 136
    widget,           \* the sliders' positions in the browser session
    rerun_requested,  \* a widget interaction the running script has not yet seen
    pc,               \* the statement the script run is at
    dims,             \* line 144: [m, n, s]
    x, y,             \* lines 145-146: the sampling coordinates
    frame_num,        \* line 148
    c, Z, M, N,       \* lines 154-158 (C is the constant array of c)
    i,                \* line 160
    progress_bar,     \* what the sidebar progress bar shows
    frame_text,       \* what the sidebar text shows (k of "Frame k/100")
    image,            \* what the image placeholder shows
    shown             \* images emitted by the current script run

vars == <<iterations, separation, widget, rerun_requested, pc, dims, x, y,
          frame_num, c, Z, M, N, i, progress_bar, frame_text, image, shown>>

----------------------------------------------------------------------------
(* Bounds and program constants *)

MinIterations == 2
MaxEngineIterations == 4
NumFrames == 100
EscapeBound == 2
FirstFrame == 0

\* Slider positions of "Separation" (range [0.7, 2.0]) the model samples.
Separations == {1, 2}
\* Slider positions of "Level of detail" (range 2..20) the script is run with
IterationRange == {MinIterations, MinIterations + 1}
\* Budgets the engine is run on by itself
EngineIterationRange == MinIterations..MaxEngineIterations

\* Grid parameters standing for m, n, s = 960, 640, 400.
ScriptDims == [m |-> 3, n |-> 3, s |-> 3]
EngineDims == {ScriptDims, [m |-> 4, n |-> 4, s |-> 1]}

----------------------------------------------------------------------------
(* Exact rational and complex arithmetic *)

Abs(a) == IF a < 0 THEN -a ELSE a

RECURSIVE GCD(_, _)
GCD(a, b) == IF b = 0 THEN a ELSE GCD(b, a % b)

\* The rational num / den as <<numerator, denominator>> in lowest terms
Rat(num, den) ==
    LET sg == IF den < 0 THEN -1 ELSE 1
        g  == GCD(Abs(num), Abs(den))
    IN  <<(sg * num) \div g, (sg * den) \div g>>

RatAdd(a, b) == Rat(a[1] * b[2] + b[1] * a[2], a[2] * b[2])
RatSub(a, b) == Rat(a[1] * b[2] - b[1] * a[2], a[2] * b[2])
RatMul(a, b) == Rat(a[1] * b[1], a[2] * b[2])

\* The complex number (re + i im) / den, den > 0
Cplx(re, im, den) == [re |-> re, im |-> im, den |-> den]
CInt(a, b) == Cplx(a, b, 1)
\* a + i b for rationals a and b, over their common denominator
CRat(a, b) ==
    LET g == GCD(a[2], b[2])
    IN  Cplx(a[1] * (b[2] \div g), b[1] * (a[2] \div g), (a[2] \div g) * b[2])
CAdd(u, v) == Cplx(u.re * v.den + v.re * u.den, u.im * v.den + v.im * u.den, u.den * v.den)
CMul(u, v) == Cplx(u.re * v.re - u.im * v.im, u.re * v.im + u.im * v.re, u.den * v.den)

----------------------------------------------------------------------------
(* Grid construction, lines 144-146 and 155 *)

\* np.linspace(-ext / s, ext / s, num = ext): the k-th of ext evenly spaced values
Linspace(ext, s, k) ==
    RatAdd(Rat(-ext, s), RatMul(Rat(k, 1), Rat(2 * ext, s * (ext - 1))))

XCoords(d) == [col \in 0..(d.m - 1) |-> Linspace(d.m, d.s, col)]
YCoords(d) == [row \in 0..(d.n - 1) |-> Linspace(d.n, d.s, row)]

Pixels(d) == (0..(d.n - 1)) \X (0..(d.m - 1))

\* np.tile(x, (n, 1)) + 1j * np.tile(y, (1, m)): fresh arrays, Z[row][col] = x[col] + i y[row]
Tile(d, xs, ys) == [p \in Pixels(d) |-> CRat(xs[p[2]], ys[p[1]])]

\* np.full((n, m), True) and np.zeros((n, m)): fresh arrays every frame
FreshMask(d)  == [p \in Pixels(d) |-> TRUE]
\* (StaleCount: the count array allocated once and reused, for comparison)
StaleCount(d) == IF DOMAIN N = Pixels(d) THEN N ELSE [p \in Pixels(d) |-> 0]
FreshCount(d) == [p \in Pixels(d) |-> 0]

----------------------------------------------------------------------------
(* Frame parameter, lines 148 and 154 *)

\* a = np.linspace(0, 4 pi, 100)[frame], in quarter turns (4 pi = 8 of them),
\* rounded to the nearest one
QuarterTurns(frame) == (16 * frame + (NumFrames - 1)) \div (2 * (NumFrames - 1))

\* np.exp(1j * a) at a whole number of quarter turns
Cis(q) == CASE q % 4 = 0 -> CInt(1, 0)
            [] q % 4 = 1 -> CInt(0, 1)
            [] q % 4 = 2 -> CInt(-1, 0)
            [] OTHER     -> CInt(0, -1)

FrameParameter(sep, frame) == CMul(CInt(sep, 0), Cis(QuarterTurns(frame)))

\* The values of c the engine is run on by itself: the program's and c = 0
EngineParameters ==
    {CInt(0, 0)} \cup {CMul(CInt(sep, 0), Cis(q)) : sep \in Separations, q \in 0..3}

----------------------------------------------------------------------------
(* One iteration of the loop, lines 160-163 *)

\* line 161: Z[M] = Z[M] * Z[M] + C[M]
\* z * z + cv, for cv on the integer lattice (cv.den = 1)
QuadMap(z, cv) ==
    Cplx(z.re * z.re - z.im * z.im + cv.re * z.den * z.den,
         2 * z.re * z.im + cv.im * z.den * z.den,
         z.den * z.den)
\* (UpdateZUnmasked: without the mask; UpdateZLinear: without the square)
UpdateZUnmasked(Zv, Mv, cv) == [p \in DOMAIN Zv |-> QuadMap(Zv[p], cv)]
UpdateZLinear(Zv, Mv, cv) ==
    [p \in DOMAIN Zv |-> IF Mv[p] THEN CAdd(Zv[p], cv) ELSE Zv[p]]
UpdateZ(Zv, Mv, cv) == [p \in DOMAIN Zv |-> IF Mv[p] THEN QuadMap(Zv[p], cv) ELSE Zv[p]]

\* line 162: M[np.abs(Z) > 2] = False
\* |u| > 2, as |u|^2 > 2^2
Escaped(u) == u.re * u.re + u.im * u.im > EscapeBound * EscapeBound * u.den * u.den
EscapeMask(Zv, Mv) == [p \in DOMAIN Mv |-> IF Escaped(Zv[p]) THEN FALSE ELSE Mv[p]]

\* line 163: N[M] = i
\* (RecordCountNext: N[M] = i + 1; RecordCountScaled: N = M * i)
RecordCountNext(Nv, Mv, iv)   == [p \in DOMAIN Nv |-> IF Mv[p] THEN iv + 1 ELSE Nv[p]]
RecordCountScaled(Nv, Mv, iv) == [p \in DOMAIN Nv |-> IF Mv[p] THEN iv ELSE 0]
RecordCount(Nv, Mv, iv) == [p \in DOMAIN Nv |-> IF Mv[p] THEN iv ELSE Nv[p]]

\* line 160: for i in range(iterations): is there an index after iv?
\* (HasNextShort: range(iterations - 1))
HasNextShort(iv, K) == iv + 2 < K
HasNext(iv, K) == iv + 1 < K

\* The whole loop as a function of its inputs: the state after iterations
\* 0..K-1, as [Z, M, N]
RECURSIVE Engine(_, _, _)
Engine(Z0, cv, K) ==
    IF K = 0
    THEN [Z |-> Z0, M |-> [p \in DOMAIN Z0 |-> TRUE], N |-> [p \in DOMAIN Z0 |-> 0]]
    ELSE LET prev == Engine(Z0, cv, K - 1)
             Z1   == UpdateZ(prev.Z, prev.M, cv)
             M1   == EscapeMask(Z1, prev.M)
         IN  [Z |-> Z1, M |-> M1, N |-> RecordCount(prev.N, M1, K - 1)]

----------------------------------------------------------------------------
(* Normalisation, line 166 *)

MaxOf(S) == CHOOSE v \in S : \A w \in S : w <= v

\* N.max()
CountMax(Nv) == MaxOf({Nv[p] : p \in DOMAIN Nv})

\* A float as <<num, den>>; <<0, 0>> is NaN, which is what numpy's 0.0 / 0.0
\* is (with a RuntimeWarning, no exception), and 1.0 - NaN is NaN
NaN == <<0, 0>>
FloatDiv(a, b) == IF b = 0 THEN NaN ELSE Rat(a, b)
OneMinus(f) == IF f = NaN THEN NaN ELSE RatSub(Rat(1, 1), f)

\* 1.0 - (N / N.max())
Normalizer(Nv) == [p \in DOMAIN Nv |-> OneMinus(FloatDiv(Nv[p], CountMax(Nv)))]

\* What a placeholder shows: nothing, or a value
Nothing == [visible |-> FALSE, frame |-> 0, data |-> <<>>]
Shows(frame, data) == [visible |-> TRUE, frame |-> frame, data |-> data]

----------------------------------------------------------------------------
(* The script run, lines 135-173 *)

\* Statements that call into Streamlit: a pending rerun request stops the
\* run there and nowhere else
\* (YieldPointsAll: every statement, as if the inner loop called Streamlit too)
YieldPointsAll == {"sliders", "grid", "progress", "text", "setup", "update", "test",
                   "record", "image", "clear", "button", "done"}
YieldPoints == {"sliders", "progress", "text", "image", "clear", "button", "done"}

\* enumerate(np.linspace(0.0, 4 * np.pi, 100)): the index after frame
\* (NextFrameSkip: every other frame)
NextFrameSkip(frame) == frame + 2
NextFrame(frame) == frame + 1

WidgetPositions == [iterations : IterationRange, separation : Separations]

\* The Python variables of a script run before it has assigned them
NoArray == <<>>

Init ==
    /\ widget \in WidgetPositions
    /\ iterations = widget.iterations
    /\ separation = widget.separation
    /\ rerun_requested = FALSE
    /\ pc = "sliders"
    /\ dims = ScriptDims
    /\ x = NoArray /\ y = NoArray
    /\ frame_num = FirstFrame
    /\ c = CInt(0, 0)
    /\ Z = NoArray /\ M = NoArray /\ N = NoArray
    /\ i = 0
    /\ progress_bar = Nothing /\ frame_text = Nothing /\ image = Nothing
    /\ shown = 0

\* lines 135-141: read the sliders, create the progress bar and the placeholders
ReadSliders ==
    /\ pc = "sliders" /\ ~rerun_requested
    /\ iterations' = widget.iterations
    /\ separation' = widget.separation
    /\ progress_bar' = Shows(0, NoArray)
    /\ frame_text' = Nothing
    /\ image' = Nothing
    /\ pc' = "grid"
    /\ UNCHANGED <<widget, rerun_requested, dims, x, y, frame_num, c, Z, M, N, i, shown>>

\* lines 144-148: build the coordinates and enter the frame loop
BuildGrid ==
    /\ pc = "grid"
    /\ dims' = ScriptDims
    /\ x' = XCoords(ScriptDims)
    /\ y' = YCoords(ScriptDims)
    /\ frame_num' = FirstFrame
    /\ pc' = IF FirstFrame < NumFrames THEN "progress" ELSE "clear"
    /\ UNCHANGED <<iterations, separation, widget, rerun_requested, c, Z, M, N, i,
                   progress_bar, frame_text, image, shown>>

\* line 150: progress_bar.progress(frame_num)
Progress ==
    /\ pc = "progress" /\ ~rerun_requested
    /\ progress_bar' = Shows(frame_num, NoArray)
    /\ pc' = "text"
    /\ UNCHANGED <<iterations, separation, widget, rerun_requested, dims, x, y,
                   frame_num, c, Z, M, N, i, frame_text, image, shown>>

\* line 151: frame_text.text(f"Frame {frame_num + 1}/100")
Text ==
    /\ pc = "text" /\ ~rerun_requested
    /\ frame_text' = Shows(frame_num + 1, NoArray)
    /\ pc' = "setup"
    /\ UNCHANGED <<iterations, separation, widget, rerun_requested, dims, x, y,
                   frame_num, c, Z, M, N, i, progress_bar, image, shown>>

\* lines 154-160: the frame's parameter and fresh arrays, and the loop's first index
Setup ==
    /\ pc = "setup"
    /\ c' = FrameParameter(separation, frame_num)
    /\ Z' = Tile(dims, x, y)
    /\ M' = FreshMask(dims)
    /\ N' = FreshCount(dims)
    /\ i' = 0
    /\ pc' = IF 0 < iterations THEN "update" ELSE "image"
    /\ UNCHANGED <<iterations, separation, widget, rerun_requested, dims, x, y,
                   frame_num, progress_bar, frame_text, image, shown>>

\* line 161
Update ==
    /\ pc = "update"
    /\ Z' = UpdateZ(Z, M, c)
    /\ pc' = "test"
    /\ UNCHANGED <<iterations, separation, widget, rerun_requested, dims, x, y,
                   frame_num, c, M, N, i, progress_bar, frame_text, image, shown>>

\* line 162
EscapeTest ==
    /\ pc = "test"
    /\ M' = EscapeMask(Z, M)
    /\ pc' = "record"
    /\ UNCHANGED <<iterations, separation, widget, rerun_requested, dims, x, y,
                   frame_num, c, Z, N, i, progress_bar, frame_text, image, shown>>

\* line 163, and line 160's step to the next index or out of the loop
Record ==
    /\ pc = "record"
    /\ N' = RecordCount(N, M, i)
    /\ IF HasNext(i, iterations)
       THEN i' = i + 1 /\ pc' = "update"
       ELSE i' = i /\ pc' = "image"
    /\ UNCHANGED <<iterations, separation, widget, rerun_requested, dims, x, y,
                   frame_num, c, Z, M, progress_bar, frame_text, image, shown>>

\* line 166, and line 148's step to the next frame or out of the loop
ShowImage ==
    /\ pc = "image" /\ ~rerun_requested
    /\ image' = Shows(frame_num, Normalizer(N))
    /\ shown' = shown + 1
    /\ IF NextFrame(frame_num) < NumFrames
       THEN frame_num' = NextFrame(frame_num) /\ pc' = "progress"
       ELSE frame_num' = frame_num /\ pc' = "clear"
    /\ UNCHANGED <<iterations, separation, widget, rerun_requested, dims, x, y,
                   c, Z, M, N, i, progress_bar, frame_text>>

\* lines 169-170: progress_bar.empty(); frame_text.empty()
Clear ==
    /\ pc = "clear" /\ ~rerun_requested
    /\ progress_bar' = Nothing
    /\ frame_text' = Nothing
    /\ pc' = "button"
    /\ UNCHANGED <<iterations, separation, widget, rerun_requested, dims, x, y,
                   frame_num, c, Z, M, N, i, image, shown>>

\* line 173: st.button("Re-run"); the script run ends
Button ==
    /\ pc = "button" /\ ~rerun_requested
    /\ pc' = "done"
    /\ UNCHANGED <<iterations, separation, widget, rerun_requested, dims, x, y,
                   frame_num, c, Z, M, N, i, progress_bar, frame_text, image, shown>>

\* The user moves a slider of lines 135-136
MoveSlider ==
    /\ \E w \in WidgetPositions :
          /\ w # widget
          /\ widget' = w
    /\ rerun_requested' = TRUE
    /\ UNCHANGED <<iterations, separation, pc, dims, x, y, frame_num, c, Z, M, N, i,
                   progress_bar, frame_text, image, shown>>

\* The user presses the button of line 173, which exists once the run has ended
ClickButton ==
    /\ pc = "done"
    /\ rerun_requested' = TRUE
    /\ UNCHANGED <<iterations, separation, widget, pc, dims, x, y, frame_num, c, Z, M,
                   N, i, progress_bar, frame_text, image, shown>>

\* Streamlit reruns the script from its first line: the run in progress stops
\* at the Streamlit call it is at and its Python variables are gone; what the
\* page shows stays until the new run replaces it
Rerun ==
    /\ rerun_requested
    /\ pc \in YieldPoints
    /\ rerun_requested' = FALSE
    /\ pc' = "sliders"
    /\ x' = NoArray /\ y' = NoArray
    /\ frame_num' = FirstFrame
    /\ c' = CInt(0, 0)
    /\ Z' = NoArray /\ M' = NoArray /\ N' = NoArray
    /\ i' = 0
    /\ shown' = 0
    /\ UNCHANGED <<iterations, separation, widget, dims, progress_bar, frame_text, image>>

ScriptStep ==
    \/ ReadSliders \/ BuildGrid \/ Progress \/ Text \/ Setup
    \/ Update \/ EscapeTest \/ Record \/ ShowImage \/ Clear \/ Button

Next == ScriptStep \/ MoveSlider \/ ClickButton \/ Rerun

Spec == Init /\ [][Next]_vars

\* A script run that can take its next step takes it
FairSpec == Spec /\ WF_vars(ScriptStep)

----------------------------------------------------------------------------
(* The engine and the normaliser by themselves, on any grid, c and budget *)

EngineInit ==
    /\ iterations \in EngineIterationRange
    /\ separation \in Separations
    /\ widget = [iterations |-> iterations, separation |-> separation]
    /\ rerun_requested = FALSE
    /\ dims \in EngineDims
    /\ x = XCoords(dims) /\ y = YCoords(dims)
    /\ frame_num = FirstFrame
    /\ c \in EngineParameters
    /\ Z = Tile(dims, x, y)
    /\ M = FreshMask(dims)
    /\ N = FreshCount(dims)
    /\ i = 0
    /\ pc = "update"
    /\ progress_bar = Nothing /\ frame_text = Nothing /\ image = Nothing
    /\ shown = 0

\* line 166 on the engine's result
Normalize ==
    /\ pc = "image"
    /\ image' = Shows(frame_num, Normalizer(N))
    /\ pc' = "returned"
    /\ UNCHANGED <<iterations, separation, widget, rerun_requested, dims, x, y,
                   frame_num, c, Z, M, N, i, progress_bar, frame_text, shown>>

EngineNext == Update \/ EscapeTest \/ Record \/ Normalize

EngineSpec == EngineInit /\ [][EngineNext]_vars

----------------------------------------------------------------------------
(* Properties of the engine and the normaliser, under EngineSpec *)

\* The grid the current frame started from
Z0 == Tile(dims, x, y)

\* Pixel p is active after iterations 0..j-1 and the escape test of iteration j
\* makes it inactive
EscapesAt(p, j) == Engine(Z0, c, j).M[p] /\ ~Engine(Z0, c, j + 1).M[p]

AfterLoop == {"image", "returned"}

\* C1: a pixel that the escape test of iteration j has made inactive was not
\* given count j by that iteration: from then to the end of the frame its
\* count is j - 1 when j >= 1, and 0 when j = 0.
C1_EscapedKeepsPriorCount ==
    \A p \in DOMAIN N : \A j \in 0..(iterations - 1) :
        (EscapesAt(p, j) /\ ~M[p]) => N[p] = (IF j >= 1 THEN j - 1 ELSE 0)

C1_Witness ==
    /\ pc = "returned"
    /\ \E p \in DOMAIN N : EscapesAt(p, 0) /\ N[p] = 0
    /\ \E p \in DOMAIN N : \E j \in 2..(iterations - 1) : EscapesAt(p, j) /\ N[p] = j - 1

\* The inputs of the end-to-end example: m = n = 4, s = 1, K = 3, c = 0
C2Inputs ==
    /\ dims = [m |-> 4, n |-> 4, s |-> 1]
    /\ x = [col \in 0..3 |-> Rat(8 * col - 12, 3)]
    /\ c = CInt(0, 0)
    /\ iterations = 3

\* C2 as stated: on these inputs every pixel's final count is 2.
C2_Original ==
    (C2Inputs /\ pc = "returned") => \A p \in DOMAIN N : N[p] = 2

\* C2, amended: on these inputs every pixel's final count is 0, because every
\* pixel's magnitude exceeds the escape bound after the first update, so the
\* escape test of iteration 0 makes every pixel inactive.
C2_AllEscapeAtOnce ==
    (C2Inputs /\ pc \in AfterLoop) =>
        \A p \in DOMAIN N : N[p] = 0 /\ ~M[p] /\ EscapesAt(p, 0)

C2_Witness == C2Inputs /\ pc = "returned" /\ image.visible

Uniform(Nv) == \A p, q \in DOMAIN Nv : Nv[p] = Nv[q]

\* C3 as stated: for a count grid in which all pixels hold the same count (the
\* all-zero grid in particular) the emitted intensity is 1.0 for every pixel
\* and no undefined 0/0 value arises.
C3_UniformGivesOne ==
    (pc = "returned" /\ Uniform(N)) =>
        \A p \in DOMAIN N : image.data[p] = Rat(1, 1)

\* C4: every count is in [0, K-1] and at most the current iteration index (at
\* most i - 1 once iteration i - 1 has been recorded), and a pixel still active
\* when the loop has ended has count K - 1.
C4_CountRange ==
    \A p \in DOMAIN N :
        /\ N[p] \in 0..(iterations - 1)
        /\ N[p] <= i
        /\ (pc = "update" /\ i >= 1) => N[p] <= i - 1
        /\ (pc \in AfterLoop /\ M[p]) => N[p] = iterations - 1

C4_Witness ==
    /\ pc = "returned"
    /\ iterations = MaxEngineIterations
    /\ \E p \in DOMAIN N : M[p] /\ N[p] = iterations - 1
    /\ \E p \in DOMAIN N : ~M[p] /\ N[p] < iterations - 1

\* C8: for budgets K < K' on the same grid and c, a pixel still active at the
\* end of the run with budget K ends the run with budget K' with a count at
\* least its count under K.
C8_BudgetMonotone ==
    pc \in AfterLoop =>
        \A K \in EngineIterationRange : \A p \in DOMAIN N :
            (K < iterations /\ Engine(Z0, c, K).M[p]) => N[p] >= Engine(Z0, c, K).N[p]

C8_Witness ==
    /\ pc = "returned"
    /\ \E p \in DOMAIN N :
          /\ Engine(Z0, c, MinIterations).M[p]
          /\ ~M[p]
          /\ N[p] > Engine(Z0, c, MinIterations).N[p]

\* C9: within a frame an inactive pixel stays inactive and its Z and its count
\* are never modified again; the count of a pixel that stays active never
\* decreases.
C9_InactiveIsFrozen ==
    [][\A p \in DOMAIN M :
          /\ ~M[p] => (~M'[p] /\ Z'[p] = Z[p] /\ N'[p] = N[p])
          /\ (M[p] /\ M'[p]) => N'[p] >= N[p]]_vars

C9_Witness ==
    /\ pc = "returned"
    /\ \E p \in DOMAIN N : ~M[p] /\ N[p] + 2 < iterations
    /\ \E p \in DOMAIN N : M[p] /\ N[p] > 0

----------------------------------------------------------------------------
(* Properties of the script run, under Spec and FairSpec *)

InLoop == {"update", "test", "record"}

\* The iteration loop of step t of the current run has run to its end
LoopFinished(t) ==
    \/ frame_num > t
    \/ frame_num = t /\ pc \in {"image", "clear", "button", "done"}
                     /\ i = iterations - 1

\* This step emits the image of step t / the progress notification of step t
EmitsImage(t)    == image' # image /\ image'.visible /\ image'.frame = t
EmitsProgress(t) ==
    \/ pc = "progress" /\ progress_bar' # progress_bar /\ progress_bar'.frame = t
    \/ frame_text' # frame_text /\ frame_text'.visible /\ frame_text'.frame = t + 1

Frames == 0..(NumFrames - 1)

\* C5 as stated: neither the image nor the progress notification of step t is
\* emitted before step t's iteration loop has finished.
C5_Original ==
    [][\A t \in Frames : (EmitsImage(t) \/ EmitsProgress(t)) => LoopFinished(t)]_vars

\* C5, amended: in every step t the progress notification is emitted first,
\* before step t's iteration loop has started; then the loop runs all its
\* iterations, and only then is the image of step t emitted, while the
\* progress display still shows step t.
C5_ProgressThenLoopThenImage ==
    [][\A t \in Frames :
          /\ EmitsProgress(t) => (frame_num = t /\ pc \in {"progress", "text"})
          /\ EmitsImage(t) =>
                /\ LoopFinished(t) /\ frame_num = t /\ pc = "image"
                /\ \A p \in DOMAIN N : M[p] => N[p] = iterations - 1
                /\ progress_bar = Shows(t, NoArray)
                /\ frame_text = Shows(t + 1, NoArray)]_vars

C5_Witness ==
    /\ pc = "text" /\ frame_num = 1
    /\ image.visible /\ image.frame = 0
    /\ progress_bar = Shows(1, NoArray) /\ frame_text = Shows(1, NoArray)

\* C6: a rerun is acted on only between the iteration loops of frames (a loop
\* that has started runs to its end, in the same frame), it resets the step
\* counter, and the first image emitted after it is that of frame 0.
C6_RestartAtFrameBoundary ==
    [][/\ (rerun_requested /\ ~rerun_requested') =>
              (pc \notin InLoop /\ pc # "setup" /\ pc' = "sliders"
               /\ frame_num' = 0 /\ shown' = 0)
       /\ pc \in InLoop =>
              (pc' \in InLoop \cup {"image"} /\ frame_num' = frame_num
               /\ (pc' = "image" => i' = iterations - 1))
       /\ (shown = 0 /\ shown' # 0) => (image'.visible /\ image'.frame = 0)]_vars

\* A rerun has stopped a run that was at frame 5: the page still shows that
\* run's progress, and the new run starts over
C6_Witness ==
    /\ pc = "sliders" /\ ~rerun_requested
    /\ progress_bar = Shows(5, NoArray) /\ frame_text = Shows(6, NoArray)
    /\ image.visible /\ image.frame = 4
    /\ frame_num = 0 /\ shown = 0

\* C7: a script run that is not interrupted emits the images of frames
\* 0, 1, ..., 99 in that order, each once; the computation of a frame starts
\* only when the images of all earlier frames and the frame's own progress have
\* been emitted; and the run ends, after frame 99, with the progress display
\* cleared.
C7_AllFramesInOrder ==
    /\ [][shown' # shown /\ shown' # 0 =>
             (shown' = shown + 1 /\ image'.visible /\ image'.frame = shown
              /\ shown < NumFrames)]_vars
    /\ [](pc \in InLoop \cup {"setup"} =>
             /\ shown = frame_num
             /\ frame_num > 0 => (image.visible /\ image.frame = frame_num - 1)
             /\ progress_bar = Shows(frame_num, NoArray)
             /\ frame_text = Shows(frame_num + 1, NoArray))
    /\ [](pc \in {"clear", "button", "done"} =>
             (shown = NumFrames /\ image.visible /\ image.frame = NumFrames - 1))
    /\ [](pc \in {"button", "done"} => (progress_bar = Nothing /\ frame_text = Nothing))
    /\ (pc = "sliders" /\ ~rerun_requested) ~>
          ((pc = "done" /\ shown = NumFrames) \/ rerun_requested)

C7_Witness ==
    /\ pc = "done" /\ shown = NumFrames
    /\ image.visible /\ image.frame = NumFrames - 1
    /\ progress_bar = Nothing

\* C10: every frame's iteration starts from the original grid, with every
\* pixel active and every count 0, whatever earlier frames and runs did, and
\* the coordinates are those that were built.
C10_FreshStatePerFrame ==
    /\ pc \in InLoop \cup {"progress", "text", "setup", "image"} =>
          (x = XCoords(ScriptDims) /\ y = YCoords(ScriptDims) /\ dims = ScriptDims)
    /\ (pc = "update" /\ i = 0) =>
          /\ Z = Tile(ScriptDims, XCoords(ScriptDims), YCoords(ScriptDims))
          /\ \A p \in Pixels(ScriptDims) : M[p] /\ N[p] = 0

C10_Witness ==
    /\ pc = "update" /\ i = 0 /\ frame_num >= 1
    /\ image.visible /\ image.frame = frame_num - 1
    /\ \E p \in DOMAIN image.data : image.data[p] \notin {NaN, Rat(1, 1)}

====
